---- MODULE Spec2Model ----
(***************************************************************************)
(* Model of force_budget.py: the function apply_force (lines 1-4) and the  *)
(* module body that calls it once with the cookie example and prints the   *)
(* result (lines 7-12).                                                    *)
(*                                                                         *)
(* Numbers.  The program computes on Python floats.  A finite float is     *)
(* modelled by the rational it denotes, kept as a reduced fraction         *)
(* [num, den] with den > 0; the product and the order are the exact ones   *)
(* (the rounding of a product to the nearest float, at most one unit in    *)
(* the last place, is not modelled).                                       *)
(* The non-finite floats (inf, nan) are not real numbers and are outside   *)
(* the modelled input domain, and -0.0 is identified with 0.0 (they        *)
(* compare equal in Python).                                               *)
(*                                                                         *)
(* Control.  pc is the line about to execute; stack is Python's call       *)
(* stack of apply_force frames (locals by name); ret is the value a        *)
(* return statement hands to the caller; force is the module global        *)
(* bound on line 7; stdout is the sequence of lines printed.               *)
(***************************************************************************)
EXTENDS Integers, Sequences, FiniteSets, TLC

VARIABLES
    pc,       \* "L7", "L3", "L4", "ret", "L12", "done"
    stack,    \* <<>> at module level, <<frame>> inside apply_force
    ret,      \* <<>> or <<v>>: the value of the last return statement
    caller,   \* "module": the call on line 7; "client": a call by an importer
    force,    \* <<>> while the global is unbound, <<v>> after line 7
    stdout,   \* the lines written to standard output
    direct,   \* TRUE: run as a script; FALSE: imported, the importer calls on
    calls,    \* history: number of calls of apply_force started
    memo      \* history: <<>> or <<[args, ret, call]>>, one completed call remembered

vars == <<pc, stack, ret, caller, force, stdout, direct, calls, memo>>

----------------------------------------------------------------------------
(* Bounds of the model *)

\* forces of the single-call specification range over -MaxNeg .. MaxForce
MaxForce == 10
\* the most negative force and efficiency numerator, as a magnitude
MaxNeg == 2
\* efficiencies of the single-call specification are n/10, n up to MaxEffTenths
MaxEffTenths == 12
\* an importer's forces range over -1 .. MaxCallForce
MaxCallForce == 1
\* an importer's efficiencies are n/2, n in 0 .. MaxCallEff
MaxCallEff == 1
\* calls of apply_force in one run of the program (the module's own included)
MaxCalls == 4

----------------------------------------------------------------------------
(* Finite floats as reduced fractions *)

Abs(n) == IF n < 0 THEN -n ELSE n

RECURSIVE Gcd(_, _)
Gcd(m, n) == IF n = 0 THEN m ELSE Gcd(n, m % n)

\* the float denoted by n/d, d > 0
Rat(n, d) ==
    LET g == Gcd(Abs(n), d)
    IN  [num |-> n \div g, den |-> d \div g]

\* x * y on floats
Mul(x, y) == Rat(x.num * y.num, x.den * y.den)

\* x + y on floats
Add(x, y) == Rat(x.num * y.den + y.num * x.den, x.den * y.den)

\* x < y on floats
Lt(x, y) == x.num * y.den < y.num * x.den

\* x <= y on floats
Leq(x, y) == x.num * y.den <= y.num * x.den

Zero == Rat(0, 1)

----------------------------------------------------------------------------
(* apply_force, lines 1-4 *)

\* a variant that carries the previous call's result into the next call
EffectiveForceLeaky(efficiency, actuator_force) ==
    IF ret = <<>> THEN Mul(efficiency, actuator_force)
    ELSE Add(Mul(efficiency, actuator_force), ret[1])

\* a variant that forgets the efficiency
EffectiveForceUnscaled(efficiency, actuator_force) == actuator_force

\* line 3: efficiency * actuator_force
EffectiveForce(efficiency, actuator_force) == Mul(efficiency, actuator_force)

\* variants of the builtin min of three arguments
Min3Max(x, y, z) ==
    LET b1 == IF Lt(x, y) THEN y ELSE x
    IN  IF Lt(b1, z) THEN z ELSE b1
Min3FirstFlipped(x, y, z) ==
    LET b1 == IF Lt(x, y) THEN y ELSE x
    IN  IF Lt(z, b1) THEN z ELSE b1
Min3NoThird(x, y, z) == IF Lt(y, x) THEN y ELSE x
Min3NoSecond(x, y, z) == IF Lt(z, x) THEN z ELSE x
Min3NoFirst(x, y, z) == IF Lt(z, y) THEN z ELSE y
Min3Floor(x, y, z) ==
    LET b1 == IF Lt(y, x) THEN y ELSE x
        b2 == IF Lt(z, b1) THEN z ELSE b1
    IN  IF Lt(b2, Zero) THEN Zero ELSE b2
Min3Trip(x, y, z) ==
    IF Lt(y, x) THEN Zero ELSE IF Lt(z, x) THEN z ELSE x

\* line 4: Python's min(x, y, z): the first argument is the candidate and a
\* later one replaces it only when it is strictly smaller
Min3(x, y, z) ==
    LET b1 == IF Lt(y, x) THEN y ELSE x
    IN  IF Lt(z, b1) THEN z ELSE b1

\* the whole function, as one expression
apply_force(desired_force, safe_limit, actuator_force, efficiency) ==
    Min3(desired_force, safe_limit, EffectiveForce(efficiency, actuator_force))

\* the frame a call creates: the four parameters bound, no other local
NewFrame(a, b, c, e) ==
    [desired_force |-> a, safe_limit |-> b, actuator_force |-> c, efficiency |-> e]

\* the parameters of a frame, whether or not effective_force is bound yet
Args(f) == NewFrame(f.desired_force, f.safe_limit, f.actuator_force, f.efficiency)

\* line 3: effective_force = efficiency * actuator_force
Line3 ==
    /\ pc = "L3"
    /\ LET f == stack[1]
       IN  stack' = <<[desired_force   |-> f.desired_force,
                       safe_limit      |-> f.safe_limit,
                       actuator_force  |-> f.actuator_force,
                       efficiency      |-> f.efficiency,
                       effective_force |-> EffectiveForce(f.efficiency, f.actuator_force)]>>
    /\ pc' = "L4"
    /\ UNCHANGED <<ret, caller, force, stdout, direct, calls, memo>>

\* line 4: return min(desired_force, safe_limit, effective_force)
Line4 ==
    /\ pc = "L4"
    /\ LET f == stack[1]
       IN  ret' = <<Min3(f.desired_force, f.safe_limit, f.effective_force)>>
    /\ pc' = "ret"
    /\ UNCHANGED <<stack, caller, force, stdout, direct, calls, memo>>

----------------------------------------------------------------------------
(* the module body, lines 7-12 *)

\* the example's arguments, lines 7-10
ExampleDesired == Rat(2, 1)
ExampleSafeLimit == Rat(3, 1)
ExampleActuator == Rat(5, 1)
ExampleEfficiency == Rat(8, 10)

\* lines 7-10, the call: apply_force(desired_force=2.0, safe_limit=3.0,
\* actuator_force=5.0, efficiency=0.8)
ModuleCall ==
    /\ pc = "L7"
    /\ stack' = <<NewFrame(ExampleDesired, ExampleSafeLimit,
                           ExampleActuator, ExampleEfficiency)>>
    /\ caller' = "module"
    /\ calls' = calls + 1
    /\ pc' = "L3"
    /\ UNCHANGED <<ret, force, stdout, direct, memo>>

\* line 7, the assignment: force = <the value returned>
ModuleAssign ==
    /\ pc = "ret"
    /\ caller = "module"
    /\ force' = ret
    /\ stack' = <<>>
    /\ memo' \in {memo} \cup (IF memo = <<>>
                              THEN {<<[args |-> Args(stack[1]), ret |-> ret[1],
                                       call |-> calls]>>}
                              ELSE {})
    /\ pc' = "L12"
    /\ UNCHANGED <<ret, caller, stdout, direct, calls>>

\* the decimal digits of r/d, 0 <= r < d, as str(float) writes them (at most
\* n of them)
RECURSIVE FracDigits(_, _, _)
FracDigits(r, d, n) ==
    IF r = 0 \/ n = 0 THEN ""
    ELSE ToString((r * 10) \div d) \o FracDigits((r * 10) % d, d, n - 1)

\* a variant that writes a whole float as an integer
FloatStrInt(x) ==
    IF x.den = 1 THEN ToString(x.num)
    ELSE ToString(x.num \div x.den) \o "." \o FracDigits(x.num % x.den, x.den, 17)

\* str(x) of a float: sign, integer part, point, at least one decimal
FloatStr(x) ==
    LET m == Abs(x.num)
        r == m % x.den
    IN  (IF x.num < 0 THEN "-" ELSE "")
        \o ToString(m \div x.den) \o "."
        \o (IF r = 0 THEN "0" ELSE FracDigits(r, x.den, 17))

\* line 12: print("Final output force:", force, "N") writes the three
\* arguments' str() separated by single spaces, as one line
Line12 ==
    /\ pc = "L12"
    /\ stdout' = Append(stdout, "Final output force:" \o " " \o FloatStr(force[1])
                                \o " " \o "N")
    /\ pc' = "done"
    /\ UNCHANGED <<stack, ret, caller, force, direct, calls, memo>>

----------------------------------------------------------------------------
(* an importer of the module: after the module body has run it may call   *)
(* apply_force with arguments of its own                                   *)

CallForces == {Rat(n, 1) : n \in -1 .. MaxCallForce}
CallEfficiencies == {Rat(n, 2) : n \in 0 .. MaxCallEff}

ClientCall ==
    /\ pc = "done"
    /\ ~direct
    /\ calls < MaxCalls
    /\ \E a \in CallForces, b \in CallForces, c \in CallForces,
          e \in CallEfficiencies :
           stack' = <<NewFrame(a, b, c, e)>>
    /\ caller' = "client"
    /\ calls' = calls + 1
    /\ pc' = "L3"
    /\ UNCHANGED <<ret, force, stdout, direct, memo>>

ClientReturn ==
    /\ pc = "ret"
    /\ caller = "client"
    /\ stack' = <<>>
    /\ memo' \in {memo} \cup (IF memo = <<>>
                              THEN {<<[args |-> Args(stack[1]), ret |-> ret[1],
                                       call |-> calls]>>}
                              ELSE {})
    /\ pc' = "done"
    /\ UNCHANGED <<ret, caller, force, stdout, direct, calls>>

----------------------------------------------------------------------------
(* The program: the module body, then (when imported) the importer's calls *)

Init ==
    /\ pc = "L7"
    /\ stack = <<>>
    /\ ret = <<>>
    /\ caller = "module"
    /\ force = <<>>
    /\ stdout = <<>>
    /\ direct \in BOOLEAN
    /\ calls = 0
    /\ memo = <<>>

Next ==
    \/ ModuleCall
    \/ Line3
    \/ Line4
    \/ ModuleAssign
    \/ Line12
    \/ ClientCall
    \/ ClientReturn

Spec == Init /\ [][Next]_vars

----------------------------------------------------------------------------
(* One call of apply_force on arbitrary arguments *)

Forces == {Rat(n, 1) : n \in -MaxNeg .. MaxForce}
Efficiencies == {Rat(n, 10) : n \in -MaxNeg .. MaxEffTenths}

InitCall ==
    /\ pc = "L3"
    /\ \E a \in Forces, b \in Forces, c \in Forces, e \in Efficiencies :
           stack = <<NewFrame(a, b, c, e)>>
    /\ ret = <<>>
    /\ caller = "client"
    /\ force = <<>>
    /\ stdout = <<>>
    /\ direct = FALSE
    /\ calls = 1
    /\ memo = <<>>

NextCall ==
    \/ Line3
    \/ Line4

SpecCall == InitCall /\ [][NextCall]_vars

----------------------------------------------------------------------------
(* Properties *)

One == Rat(1, 1)

\* r is a least element of the set S of floats
IsMinOf(r, S) == r \in S /\ \A s \in S : Leq(r, s)

\* the frame of the call in progress
Frame == stack[1]

\* efficiency * actuator_force of the call in progress, as a real product
Product == Mul(Frame.efficiency, Frame.actuator_force)

\* the call in progress has executed its return statement
Returned == pc = "ret"

\* C1: apply_force(a, b, c, e) returns exactly min(a, b, e*c), and e*c is
\* computed first, as the local effective_force.
C1_ReturnsMin ==
    /\ pc \in {"L4", "ret"} => Frame.effective_force = Product
    /\ Returned => IsMinOf(ret[1], {Frame.desired_force, Frame.safe_limit, Product})

\* a call has returned whose three candidates are pairwise different
C1_Witness ==
    /\ Returned
    /\ Cardinality({Frame.desired_force, Frame.safe_limit, Product}) = 3
    /\ Frame.effective_force = Product

\* C2: the returned value is <= desired_force, <= safe_limit and
\* <= efficiency*actuator_force, for negative and zero inputs too.
C2_BelowEachCandidate ==
    Returned =>
        /\ Leq(ret[1], Frame.desired_force)
        /\ Leq(ret[1], Frame.safe_limit)
        /\ Leq(ret[1], Product)

\* a call with a zero desired force and negative limit and actuator force
C2_Witness ==
    /\ Returned
    /\ Frame.desired_force = Zero
    /\ Lt(Frame.safe_limit, Zero)
    /\ Lt(Frame.actuator_force, Zero)

\* C3: apply_force is non-decreasing in desired_force: the value returned
\* for a is <= the value for every a2 >= a, the other inputs fixed.
C3_MonotoneInDesired ==
    Returned =>
        \A a2 \in Forces :
            Leq(Frame.desired_force, a2) =>
                Leq(ret[1], apply_force(a2, Frame.safe_limit,
                                        Frame.actuator_force, Frame.efficiency))

\* a call, with a negative efficiency, whose result is strictly below that
\* of a larger desired force
C3_Witness ==
    /\ Returned
    /\ Lt(Frame.efficiency, Zero)
    /\ \E a2 \in Forces :
           /\ Lt(Frame.desired_force, a2)
           /\ Lt(ret[1], apply_force(a2, Frame.safe_limit,
                                     Frame.actuator_force, Frame.efficiency))

\* C4: with efficiency 0 the result is min(a, b, 0): never positive, and the
\* same whatever the actuator_force.
C4_ZeroEfficiency ==
    (Returned /\ Frame.efficiency = Zero) =>
        /\ IsMinOf(ret[1], {Frame.desired_force, Frame.safe_limit, Zero})
        /\ ~Lt(Zero, ret[1])
        /\ \A c2 \in Forces :
               apply_force(Frame.desired_force, Frame.safe_limit, c2,
                           Frame.efficiency) = ret[1]

\* a call with efficiency 0, positive desired force, limit and actuator force,
\* which returned 0
C4_Witness ==
    /\ Returned
    /\ Frame.efficiency = Zero
    /\ Lt(Zero, Frame.desired_force)
    /\ Lt(Zero, Frame.safe_limit)
    /\ Lt(Zero, Frame.actuator_force)
    /\ ret[1] = Zero

\* C5: the module's call apply_force(2.0, 3.0, 5.0, 0.8) computes
\* effective_force 4.0 and yields 2.0, which is what force is bound to; and
\* any call whose desired_force is the smallest candidate returns it.
C5_ExampleYieldsDesired ==
    /\ (caller = "module" /\ stack # <<>>) =>
           Args(Frame) = NewFrame(Rat(2, 1), Rat(3, 1), Rat(5, 1), Rat(4, 5))
    /\ (caller = "module" /\ pc \in {"L4", "ret"}) =>
           Frame.effective_force = Rat(4, 1)
    /\ (caller = "module" /\ Returned) => ret = <<Rat(2, 1)>>
    /\ force # <<>> => force = <<Rat(2, 1)>>
    /\ pc \in {"L12", "done"} => force # <<>>
    /\ (Returned /\ Leq(Frame.desired_force, Frame.safe_limit)
                 /\ Leq(Frame.desired_force, Product)) =>
           ret[1] = Frame.desired_force

\* force is bound to 2.0 and a later call returned its desired_force, the
\* strictly smallest of its candidates
C5_Witness ==
    /\ force = <<Rat(2, 1)>>
    /\ Returned
    /\ caller = "client"
    /\ Lt(Frame.desired_force, Frame.safe_limit)
    /\ Lt(Frame.desired_force, Product)
    /\ ret[1] = Frame.desired_force

\* C6: when safe_limit is the smallest candidate the result is safe_limit;
\* apply_force(10.0, 3.0, 5.0, 0.8) is 3.0.
C6_SafeLimitBinds ==
    /\ (Returned /\ Leq(Frame.safe_limit, Frame.desired_force)
                 /\ Leq(Frame.safe_limit, Product)) =>
           ret[1] = Frame.safe_limit
    /\ (Returned /\ Args(Frame) = NewFrame(Rat(10, 1), Rat(3, 1), Rat(5, 1), Rat(4, 5))) =>
           ret[1] = Rat(3, 1)

\* the call apply_force(10.0, 3.0, 5.0, 0.8) has returned
C6_Witness ==
    /\ Returned
    /\ Args(Frame) = NewFrame(Rat(10, 1), Rat(3, 1), Rat(5, 1), Rat(4, 5))
    /\ Frame.effective_force = Rat(4, 1)

\* C7: when efficiency*actuator_force is the smallest candidate the result
\* is that product; apply_force(10.0, 10.0, 5.0, 0.5) is 2.5.
C7_EffectiveForceBinds ==
    /\ (Returned /\ Leq(Product, Frame.desired_force)
                 /\ Leq(Product, Frame.safe_limit)) =>
           ret[1] = Product
    /\ (Returned /\ Args(Frame) = NewFrame(Rat(10, 1), Rat(10, 1), Rat(5, 1), Rat(1, 2))) =>
           ret[1] = Rat(5, 2)

\* the call apply_force(10.0, 10.0, 5.0, 0.5) has returned
C7_Witness ==
    /\ Returned
    /\ Args(Frame) = NewFrame(Rat(10, 1), Rat(10, 1), Rat(5, 1), Rat(1, 2))
    /\ Lt(ret[1], Frame.safe_limit)

\* C8: apply_force is pure and deterministic: a call returns what an
\* earlier call with the same arguments returned, whatever calls came in
\* between, and its steps change nothing but its local effective_force and
\* the value it returns (the global force, the output and its own
\* parameters are left alone).
C8_PureDeterministic ==
    [][ /\ pc \in {"L3", "L4"} =>
            /\ force' = force
            /\ stdout' = stdout
            /\ Len(stack') = 1
            /\ Args(stack'[1]) = Args(Frame)
            /\ DOMAIN stack'[1] = DOMAIN Args(Frame) \cup {"effective_force"}
        /\ (pc = "L3" /\ ret # <<>>) => ret' = ret
        /\ (pc = "L4" /\ memo # <<>> /\ memo[1].args = Args(Frame)) =>
            ret' = <<memo[1].ret>>
      ]_vars

\* a call has returned that repeats the remembered call's arguments, with
\* at least one other call in between
C8_Witness ==
    /\ Returned
    /\ memo # <<>>
    /\ memo[1].args = Args(Frame)
    /\ memo[1].call + 1 < calls
    /\ ret[1] = memo[1].ret
    /\ force # <<>>

\* C9: apply_force validates nothing and has no error outcome: every call
\* runs to its return statement, and the value returned is one of the
\* candidates as it is, negative when a candidate is negative (never raised
\* to zero), also for efficiency outside [0,1].
C9_NoValidation ==
    /\ pc \in {"L3", "L4", "ret"}
    /\ ~Returned => ENABLED NextCall
    /\ Returned =>
           /\ Len(ret) = 1
           /\ ret[1] \in {Frame.desired_force, Frame.safe_limit, Product}
           /\ (\/ Lt(Frame.desired_force, Zero)
               \/ Lt(Frame.safe_limit, Zero)
               \/ Lt(Product, Zero)) => Lt(ret[1], Zero)

\* a call with efficiency above 1 and a zero desired force returned a
\* negative value
C9_Witness ==
    /\ Returned
    /\ Lt(One, Frame.efficiency)
    /\ Frame.desired_force = Zero
    /\ Lt(ret[1], Zero)

\* C10: run as a script, the program calls apply_force exactly once, with
\* the example's arguments, prints the one line
\* "Final output force: 2.0 N" only after that call has returned, prints
\* nothing else, and then stops.
C10_ScriptOutput ==
    direct =>
        /\ calls <= 1
        /\ Len(stdout) <= 1
        /\ stack # <<>> =>
               Args(Frame) = NewFrame(Rat(2, 1), Rat(3, 1), Rat(5, 1), Rat(4, 5))
        /\ stdout # <<>> =>
               /\ pc = "done"
               /\ stack = <<>>
               /\ calls = 1
               /\ ret # <<>>
               /\ force = ret
               /\ stdout = <<"Final output force: 2.0 N">>
        /\ pc = "done" =>
               /\ stdout # <<>>
               /\ ~ENABLED Next

\* the script has printed its line and stopped
C10_Witness ==
    /\ direct
    /\ pc = "done"
    /\ stdout = <<"Final output force: 2.0 N">>
    /\ calls = 1

====
